---- MODULE Spec2Model ----
(***************************************************************************)
(* pynx587e: automation driver for the NX-587E virtual keypad module.      *)
(*                                                                         *)
(* The module models src/pynx587e/nx587e.py (class NXController), with     *)
(* the tables of src/pynx587e/model.py and the per-device store of         *)
(* src/pynx587e/flexdevice.py.                                             *)
(*                                                                         *)
(* Two specifications share the variables:                                 *)
(*   Spec       the connection lifecycle: the caller's connect() and       *)
(*              disconnect(), the connection-manager threads, the          *)
(*              writer / reader / event-producer threads of every session  *)
(*              and the serial port as the environment;                    *)
(*   SpecStore  the decode/update pipeline of the event producer applied   *)
(*              line by line to a freshly built deviceBank.                *)
(*                                                                         *)
(* Python values: a str is a sequence of one-character strings; bool is    *)
(* the int subclass it is in Python (True = 1, False = 0), so that the     *)
(* "not yet updated" marker -1 of FlexDevice compares with it as it does   *)
(* in the program.                                                         *)
(***************************************************************************)
EXTENDS Integers, Sequences, FiniteSets, TLC

(***************************************************************************)
(* Bounds of the model.                                                    *)
(***************************************************************************)
\* Zones and partitions of the table the lifecycle specifications run with.
ZNCount == 1
PACount == 1
\* Commands waiting on a command queue up to which the manager resends the
\* setup command.
MaxCommandQueue == 1
\* Calls of close() counted on one serial.Serial object (the count stops there).
MaxClosesCounted == 2
\* Spec: connect() calls that start a manager thread, successful opens of the
\* session transport, hot-unplugs of the adaptor, lines read from the port.
MaxManagers == 2
MaxSessions == 1
MaxUnplugs == 1
MaxLinesRead == 1
\* SpecReconnect: the same four, for one manager and a second session.
ReconnectManagers == 1
ReconnectSessions == 2
ReconnectUnplugs == 1
ReconnectLinesRead == 1
\* Lines applied by SpecStore.
MaxApplied == 3

\* SpecProbe: the lifecycle of one manager thread and one session, with the
\* probes of the port counted up to MaxProbesCounted.
ProbeManagers == 1
ProbeSessions == 1
ProbeUnplugs == 1
ProbeLinesRead == 1
MaxProbesCounted == 2

\* SpecCommands: the lifecycle of one manager thread and one session, with
\* calls of send() and get_status(), and the first commands written to the
\* port on record.
CommandManagers == 1
CommandSessions == 1
CommandUnplugs == 1
CommandLinesRead == 1
MaxCalls == 1
MaxWritten == 4

(***************************************************************************)
(* model.py                                                                *)
(***************************************************************************)
NX_DEFAULT_NODES == [ZN |-> 48, PA |-> 2]

ZONE_TOPICS ==
    << "fault", "tamper", "trouble", "bypass", "alarmMemory", "inhibit",
       "lowBattery", "lost", "memoryBypass" >>

PARTITION_TOPICS ==
    << "ready", "armed", "stay", "chime", "entryDelay", "exitPeriod",
       "previousAlarm", "siren" >>

NX_EVENT_TYPES == [ZN |-> ZONE_TOPICS, PA |-> PARTITION_TOPICS]

setup_options == "taliPZn"

keymap_au_nz ==
    [partial |-> "K", chime |-> "C", exit |-> "E", bypass |-> "B", on |-> "S",
     fire |-> "F", medical |-> "M", hold_up |-> "H", nx_quick_arm |-> "S",
     nx_stay |-> "K"]

keymap_usa ==
    [stay |-> "S", chime |-> "C", exit |-> "E", bypass |-> "B", cancel |-> "K",
     fire |-> "F", medical |-> "M", hold_up |-> "H", nx_quick_arm |-> "E",
     nx_stay |-> "S"]

supported_keymaps == [AUNZ |-> keymap_au_nz, USA |-> keymap_usa]

(***************************************************************************)
(* Python primitives used by the controller.                               *)
(***************************************************************************)
PyTrue == 1
PyFalse == 0
\* FlexDevice's initial value of every item and item_time.
NotUpdated == -1

Digits == {"0", "1", "2", "3", "4", "5", "6", "7", "8", "9"}

UpperChars ==
    {"A", "B", "C", "D", "E", "F", "G", "H", "I", "J", "K", "L", "M",
     "N", "O", "P", "Q", "R", "S", "T", "U", "V", "W", "X", "Y", "Z"}

Min(a, b) == IF a <= b THEN a ELSE b

\* s[a:b] for 0 <= a, 0 <= b: clipped to the string, never an error.
Slice(s, a, b) == SubSeq(s, a + 1, Min(b, Len(s)))

\* str.isnumeric(): non-empty and made of digits.
IsNumeric(s) == Len(s) > 0 /\ \A i \in 1..Len(s) : s[i] \in Digits

\* islower() in the place of isupper().
IsLower(c) == IF c \in UpperChars THEN PyFalse ELSE PyTrue

\* str.isupper() of one character, as a Python bool.
IsUpper(c) == IF c \in UpperChars THEN PyTrue ELSE PyFalse

DigitValue(c) ==
    CASE c = "0" -> 0 [] c = "1" -> 1 [] c = "2" -> 2 [] c = "3" -> 3
      [] c = "4" -> 4 [] c = "5" -> 5 [] c = "6" -> 6 [] c = "7" -> 7
      [] c = "8" -> 8 [] c = "9" -> 9

\* int(s) of a numeric string.
RECURSIVE PyInt(_)
PyInt(s) ==
    IF Len(s) = 0 THEN 0
    ELSE 10 * PyInt(SubSeq(s, 1, Len(s) - 1)) + DigitValue(s[Len(s)])

\* The first two characters of a line joined into the key of the tables.
RECURSIVE Join(_)
Join(s) == IF Len(s) = 0 THEN "" ELSE Head(s) \o Join(Tail(s))

\* list[i] with Python's negative indices: the 1-based position, 0 for an
\* IndexError.
PyIndex(len, i) ==
    IF 0 <= i /\ i < len THEN i + 1
    ELSE IF i < 0 /\ 0 - i <= len THEN len + i + 1
    ELSE 0

(***************************************************************************)
(* flexdevice.py                                                           *)
(***************************************************************************)
\* FlexDevice(fd_elements): every item and its item_time start at -1.
FlexDevice(fd_elements) ==
    [item \in {fd_elements[i] : i \in 1..Len(fd_elements)} |->
        [v |-> NotUpdated, t |-> NotUpdated]]

\* A get of the item where the item_time was meant.
FlexDeviceGetItem(dev, item) == dev[item].v

\* FlexDevice.get(item + '_time')
FlexDeviceGetTime(dev, item) == dev[item].t

\* A set that stores the value and leaves item_time as it was.
FlexDeviceSetValueOnly(dev, item, value, now) ==
    [dev EXCEPT ![item] = [v |-> value, t |-> @.t]]

\* FlexDevice.set(item, value) at the time "now".
FlexDeviceSet(dev, item, value, now) ==
    [dev EXCEPT ![item] = [v |-> value, t |-> now]]

(***************************************************************************)
(* NXController._decode                                                    *)
(***************************************************************************)
\* The id scan: while raw_event[2:num_char].isnumeric(). Once num_char has
\* passed the end of the line the slice no longer grows, so a slice that is
\* still numeric there keeps the loop running for ever.
RECURSIVE ScanId(_, _, _, _)
ScanId(raw_event, num_char, status_position, id) ==
    IF IsNumeric(Slice(raw_event, 2, num_char))
    THEN IF num_char > Len(raw_event)
         THEN [hang |-> TRUE, status_position |-> status_position, id |-> id]
         ELSE ScanId(raw_event, num_char + 1, status_position + 1,
                     PyInt(Slice(raw_event, 2, num_char)))
    ELSE [hang |-> FALSE, status_position |-> status_position, id |-> id]

\* kind "none": None is returned; "event": the multi_state_event;
\* "error": an exception leaves _decode; "hang": _decode does not return.
\* An id of -1 stands for the local name id never having been bound.
Decode(raw_event) ==
    LET event_type == Join(Slice(raw_event, 0, 2)) IN
    IF event_type \notin DOMAIN NX_EVENT_TYPES
    THEN [kind |-> "none"]
    ELSE
      LET scan == ScanId(raw_event, 3, 2, -1)
          payload == Slice(raw_event, scan.status_position, Len(raw_event))
          topics == NX_EVENT_TYPES[event_type]
      IN  IF scan.hang THEN [kind |-> "hang"]
          ELSE IF Len(payload) > Len(topics)
               THEN [kind |-> "error", exc |-> "IndexError"]
          ELSE IF scan.id = -1
               THEN [kind |-> "error", exc |-> "UnboundLocalError"]
          ELSE [kind |-> "event",
                type |-> event_type,
                id |-> scan.id,
                topics |-> [i \in 1..Len(payload) |->
                              [topic |-> topics[i],
                               payload |-> IsUpper(payload[i])]]]

(***************************************************************************)
(* NXController._update                                                    *)
(***************************************************************************)
\* One pass of the loop over topic_list.items(), from position i on. st is
\* [bank, clock, notifs]: the deviceBank, the clock datetime.now() reads
\* and the individual events handed to on_event so far.
\* Every topic of an event taken for changed.
TopicAlwaysChanged(previous_topic_value, payload) == TRUE

\* if previous_topic_value != payload
TopicChanged(previous_topic_value, payload) == previous_topic_value # payload

\* The callback never skipped.
NotifyAlways(previous_topic_value) == TRUE

\* skip_callback is False: the previous value was not -1.
NotifyTest(previous_topic_value) == previous_topic_value # NotUpdated

RECURSIVE UpdateTopics(_, _, _, _, _)
UpdateTopics(st, event_type, id, topic_list, i) ==
    IF i > Len(topic_list) THEN st
    ELSE IF event_type \notin DOMAIN st.bank
    THEN [st EXCEPT !.error = "KeyError"]
    ELSE
      LET k == PyIndex(Len(st.bank[event_type]), id - 1)
          topic == topic_list[i].topic
          payload == topic_list[i].payload
      IN  IF k = 0 THEN [st EXCEPT !.error = "IndexError"]
          ELSE
            LET previous_topic_value == st.bank[event_type][k][topic].v IN
            IF TopicChanged(previous_topic_value, payload)
            THEN
              LET now == st.clock + 1
                  device == FlexDeviceSet(st.bank[event_type][k], topic,
                                          payload, now)
                  individual_event ==
                      [type |-> event_type, id |-> id, topic |-> topic,
                       payload |-> payload,
                       time |-> FlexDeviceGetTime(device, topic)]
                  next ==
                      [st EXCEPT
                         !.bank[event_type][k] = device,
                         !.clock = now,
                         !.notifs =
                             IF NotifyTest(previous_topic_value)
                             THEN Append(@, individual_event) ELSE @]
              IN  UpdateTopics(next, event_type, id, topic_list, i + 1)
            ELSE UpdateTopics(st, event_type, id, topic_list, i + 1)

\* _update without its test of the id.
IdAlwaysInRange(id, max) == TRUE

\* if id <= model._NX_MAX_DEVICES[event_type]
IdInRange(id, max) == id <= max

Update(st, event, max_devices) ==
    IF IdInRange(event.id, max_devices[event.type])
    THEN UpdateTopics(st, event.type, event.id, event.topics, 1)
    ELSE st

(***************************************************************************)
(* NXController._direct_query and the command strings                      *)
(***************************************************************************)
DigitChar(d) ==
    CASE d = 0 -> "0" [] d = 1 -> "1" [] d = 2 -> "2" [] d = 3 -> "3"
      [] d = 4 -> "4" [] d = 5 -> "5" [] d = 6 -> "6" [] d = 7 -> "7"
      [] d = 8 -> "8" [] d = 9 -> "9"

\* str(n) for n >= 0.
RECURSIVE PyStr(_)
PyStr(n) == IF n < 10 THEN DigitChar(n) ELSE PyStr(n \div 10) \o DigitChar(n % 10)

\* str.zfill(3) of str(n).
ZFill3(n) == IF n < 10 THEN "00" \o PyStr(n)
             ELSE IF n < 100 THEN "0" \o PyStr(n) ELSE PyStr(n)

\* Base of the partition queries (Q193 on).
PartitionQueryBase == 192

\* A _direct_query that numbers the partitions from the maximum zone id on.
DirectQueryAfterZones(event_type, id, max_devices) ==
    IF event_type \in DOMAIN NX_EVENT_TYPES /\ id <= max_devices[event_type]
    THEN IF event_type = "PA"
         THEN << "Q" \o ZFill3(max_devices["ZN"] + id) >>
         ELSE << "Q" \o ZFill3(id) >>
    ELSE << >>

\* The query _direct_query builds, as the sequence of what it puts on the
\* command queue: nothing for an unknown type or an id above the maximum.
DirectQuery(event_type, id, max_devices) ==
    IF event_type \in DOMAIN NX_EVENT_TYPES /\ id <= max_devices[event_type]
    THEN IF event_type = "PA"
         THEN << "Q" \o PyStr(PartitionQueryBase + id) >>
         ELSE << "Q" \o ZFill3(id) >>
    ELSE << >>

\* The order in which the dict of maximum ids is iterated.
DeviceOrder == << "ZN", "PA" >>

\* The loop ended one device early (while i < max_item - 1).
NewBankShort(max_devices) ==
    [device \in DOMAIN max_devices |->
        [i \in 1..(max_devices[device] - 1) |-> FlexDevice(NX_EVENT_TYPES[device])]]

\* The loop of _connect_and_process that fills self.deviceBank: one
\* FlexDevice per id of every device type.
NewBank(max_devices) ==
    [device \in DOMAIN max_devices |->
        [i \in 1..max_devices[device] |-> FlexDevice(NX_EVENT_TYPES[device])]]

\* The direct queries that loop puts on the command queue, in order.
RECURSIVE QueriesOf(_, _, _)
QueriesOf(device, i, max_devices) ==
    IF i > max_devices[device] THEN << >>
    ELSE DirectQuery(device, i, max_devices) \o QueriesOf(device, i + 1, max_devices)

RECURSIVE AllQueries(_, _)
AllQueries(k, max_devices) ==
    IF k > Len(DeviceOrder) THEN << >>
    ELSE QueriesOf(DeviceOrder[k], 1, max_devices) \o AllQueries(k + 1, max_devices)

(***************************************************************************)
(* Lines on the wire.                                                      *)
(***************************************************************************)
\* "ZN001FttBaillb"
Line_ZN001_F == << "Z", "N", "0", "0", "1", "F", "t", "t", "B", "a", "i", "l", "l", "b" >>

\* "ZN001TttBaillb"
Line_ZN001_T == << "Z", "N", "0", "0", "1", "T", "t", "t", "B", "a", "i", "l", "l", "b" >>

\* "ZN001fttBaillb"
Line_ZN001_lower == << "Z", "N", "0", "0", "1", "f", "t", "t", "B", "a", "i", "l", "l", "b" >>

\* "ZN000FttBaillb"
Line_ZN000 == << "Z", "N", "0", "0", "0", "F", "t", "t", "B", "a", "i", "l", "l", "b" >>

\* "ZN049FttBaillb"
Line_ZN049 == << "Z", "N", "0", "4", "9", "F", "t", "t", "B", "a", "i", "l", "l", "b" >>

\* "ZN00123ab"
Line_ZN00123 == << "Z", "N", "0", "0", "1", "2", "3", "a", "b" >>

\* "PA1Rasb"
Line_PA1 == << "P", "A", "1", "R", "a", "s", "b" >>

\* "PA1rAsCeEps"
Line_PA1_full == << "P", "A", "1", "r", "A", "s", "C", "e", "E", "p", "s" >>

\* "XX001abc"
Line_unknown == << "X", "X", "0", "0", "1", "a", "b", "c" >>

\* "ZN123"
Line_digits_only == << "Z", "N", "1", "2", "3" >>

\* "ZNabc"
Line_no_id == << "Z", "N", "a", "b", "c" >>

\* "ZN001FttBaillbXX"
Line_long == << "Z", "N", "0", "0", "1", "F", "t", "t", "B", "a", "i", "l", "l", "b", "X", "X" >>

\* Lines SpecStore applies.
StoreLines ==
    { Line_ZN001_F,
      Line_ZN001_T,
      Line_ZN001_lower,
      Line_ZN000,
      Line_ZN049,
      Line_ZN00123,
      Line_PA1,
      Line_PA1_full,
      Line_unknown,
      Line_digits_only,
      Line_no_id,
      Line_long }

\* Lines the port delivers to a reader thread in Spec; the empty line is
\* what readline().decode().strip() leaves of a blank record.
WireLines == { Line_ZN001_F, Line_ZN001_lower, << >> }

(***************************************************************************)
(* State                                                                   *)
(***************************************************************************)
VARIABLES
    run_threads,          \* self._run_threads
    connection_requested, \* self._connection_requested
    first_time,           \* self._first_time
    max_devices,          \* model._NX_MAX_DEVICES, the table the controller reads
    serial_conn,          \* self.serial_conn: index into conns, 0 = attribute not set
    conns,                \* the serial.Serial objects opened so far
    cur_q,                \* self._command_q / self._raw_event_q: index, 0 = not set
    command_qs,           \* the command queues created so far
    raw_event_qs,         \* the raw event queues created so far
    deviceBank,           \* self.deviceBank (empty domain = attribute not set)
    clock,                \* the value datetime.now() last returned
    notified,             \* the individual events handed to on_event
    last,                 \* the lines the event producers handled so far, and
                          \* how the handling of the latest one ended
    managers,             \* the _connection_manager threads: how many are at each
                          \* place of the loop, have returned, died of an exception
                          \* and (probed) how many probes of the port they made
    workers,              \* the writer/reader/producer threads of every start
    plugged,              \* the serial adaptor is physically present
    unplugs,              \* hot-unplugs so far
    lines_read,           \* lines taken from the port so far
    on_connect_calls,     \* times on_connect was called
    on_disconnect_calls,  \* times on_disconnect was called
    limits,               \* how far the specification at hand explores
    api,                  \* the caller's last connect()/disconnect() and its outcome;
                          \* disconnected: a disconnect() has returned without
                          \* raising and connect() was not called since
    keymap,               \* self._keymap
    reply                 \* the caller's last send()/get_status(), what it was
                          \* given and what it returned or raised, and the
                          \* number of these calls so far

vars ==
    << run_threads, connection_requested, first_time, max_devices, serial_conn,
       conns, cur_q, command_qs, raw_event_qs, deviceBank, clock, notified,
       last, managers, workers, plugged, unplugs, lines_read,
       on_connect_calls, on_disconnect_calls, limits, api, keymap, reply >>

flagVars == << run_threads, connection_requested, first_time >>
queueVars == << cur_q, command_qs, raw_event_qs >>
storeVars == << deviceBank, clock, notified, last >>
callbackVars == << on_connect_calls, on_disconnect_calls >>
envVars == << plugged, unplugs, limits >>
callerVars == << keymap, reply >>

NoReply == [call |-> "none", arg |-> << >>, result |-> "none",
            status |-> << >>, n |-> 0]

NoBank == [device \in {} |-> << >>]

\* NXController.__init__ with nothing connected yet.
InitController ==
    /\ run_threads = FALSE
    /\ connection_requested = FALSE
    /\ first_time = TRUE
    /\ serial_conn = 0
    /\ conns = << >>
    /\ cur_q = 0
    /\ command_qs = << >>
    /\ raw_event_qs = << >>
    /\ clock = 0
    /\ notified = << >>
    /\ last = [lines |-> << >>, result |-> "none"]
    /\ managers = [loop |-> 0, probe |-> 0, open |-> 0, build |-> 0,
                   done |-> 0, dead |-> 0, probed |-> 0]
    /\ workers = << >>
    /\ plugged = TRUE
    /\ unplugs = 0
    /\ lines_read = 0
    /\ on_connect_calls = 0
    /\ on_disconnect_calls = 0
    /\ api = [call |-> "none", result |-> "none", disconnected |-> FALSE]
    /\ reply = NoReply

\* The table of a small installation, nothing connected yet.
InitLifecycle ==
    /\ InitController
    /\ keymap = "USA"
    /\ max_devices = [ZN |-> ZNCount, PA |-> PACount]
    /\ deviceBank = NoBank

Init ==
    /\ InitLifecycle
    /\ limits = [managers |-> MaxManagers, sessions |-> MaxSessions,
                 unplugs |-> MaxUnplugs, lines |-> MaxLinesRead, calls |-> 0, written |-> 0,
                 probes |-> 0]

(***************************************************************************)
(* The serial port                                                         *)
(***************************************************************************)
\* A serial.Serial object is "open" from its construction, "stale" once the
\* adaptor it was opened on has been removed, "closed" after close().
PortHeld == \E c \in 1..Len(conns) : conns[c].status = "open"

\* _serial_is_available: the exclusive test open succeeds.
SerialIsAvailable == plugged /\ ~PortHeld

\* serial.Serial.close()
Close(cs, c) ==
    [cs EXCEPT ![c] = [@ EXCEPT !.status = "closed",
                                !.closes = Min(@ + 1, MaxClosesCounted)]]

Unplug ==
    /\ plugged
    /\ unplugs < limits.unplugs
    /\ plugged' = FALSE
    /\ unplugs' = unplugs + 1
    /\ conns' = [c \in 1..Len(conns) |->
                    IF conns[c].status = "open"
                    THEN [conns[c] EXCEPT !.status = "stale"] ELSE conns[c]]
    /\ UNCHANGED << flagVars, max_devices, callerVars, serial_conn, queueVars, storeVars,
                    managers, workers, lines_read, callbackVars, limits, api >>

Replug ==
    /\ ~plugged
    /\ plugged' = TRUE
    /\ UNCHANGED << flagVars, max_devices, callerVars, serial_conn, conns, queueVars,
                    storeVars, managers, workers, unplugs, lines_read,
                    callbackVars, limits, api >>

(***************************************************************************)
(* NXController.connect / disconnect                                       *)
(***************************************************************************)
\* Manager threads that have not left their loop normally.
ManagersAlive == managers.loop + managers.probe + managers.open + managers.build
ManagersStarted == ManagersAlive + managers.done + managers.dead

\* connect() without its test.
ConnectAlways == TRUE

\* if self._run_threads is False
ConnectAllowed == run_threads = FALSE

connect ==
    IF ConnectAllowed
    THEN /\ ManagersStarted < limits.managers
         /\ connection_requested' = TRUE
         /\ managers' = [managers EXCEPT !.loop = @ + 1]
         /\ api' = [call |-> "connect", result |-> "started", disconnected |-> FALSE]
         /\ UNCHANGED << run_threads, first_time, max_devices, callerVars, serial_conn,
                         conns, queueVars, storeVars, workers, envVars,
                         lines_read, callbackVars >>
    ELSE /\ api' = [call |-> "connect", result |-> "ConnectionError",
                  disconnected |-> FALSE]
         /\ UNCHANGED << flagVars, max_devices, callerVars, serial_conn, conns, queueVars,
                         storeVars, managers, workers, envVars, lines_read,
                         callbackVars >>

\* disconnect() testing the flag connect() sets.
DisconnectIfRequested == connection_requested

\* if self._run_threads
DisconnectAllowed == run_threads

\* _stop_threads followed by the second serial_conn.close() of disconnect.
DisconnectCloses(cs, c) == Close(Close(cs, c), c)

disconnect ==
    IF DisconnectAllowed
    THEN /\ connection_requested' = FALSE
         /\ run_threads' = FALSE
         /\ conns' = DisconnectCloses(conns, serial_conn)
         /\ on_disconnect_calls' = on_disconnect_calls + 1
         /\ api' = [call |-> "disconnect", result |-> "done", disconnected |-> TRUE]
         /\ UNCHANGED << first_time, max_devices, callerVars, serial_conn, queueVars,
                         storeVars, managers, workers, envVars, lines_read,
                         on_connect_calls >>
    ELSE /\ api' = [call |-> "disconnect", result |-> "ConnectionError",
                  disconnected |-> api.disconnected]
         /\ UNCHANGED << flagVars, max_devices, callerVars, serial_conn, conns, queueVars,
                         storeVars, managers, workers, envVars, lines_read,
                         callbackVars >>

(***************************************************************************)
(* Queues nobody can reach                                                 *)
(***************************************************************************)
\* A command queue that is no longer self._command_q and whose writer thread
\* has ended, a raw event queue that is no longer self._raw_event_q and
\* whose reader and producer threads have ended, is garbage: nothing can
\* put to it or get from it any more, and its content is dropped.
Ended(pc) == pc \in {"done", "dead"}

FreeCommandQs(qs, ws, cq) ==
    [q \in 1..Len(qs) |->
        IF q # cq /\ \A w \in 1..Len(ws) : ws[w].q = q => Ended(ws[w].writer)
        THEN << >> ELSE qs[q]]

FreeRawEventQs(qs, ws, cq) ==
    [q \in 1..Len(qs) |->
        IF q # cq /\ \A w \in 1..Len(ws) : ws[w].q = q =>
                        Ended(ws[w].reader) /\ Ended(ws[w].producer)
        THEN << >> ELSE qs[q]]

(***************************************************************************)
(* NXController._stop_threads                                              *)
(***************************************************************************)
\* self._run_threads = False; self.serial_conn.close(). Called by a thread
\* that goes on at pc "next" afterwards; with no serial_conn attribute the
\* close raises AttributeError after the flag was cleared.
StopThreadsConns == IF serial_conn = 0 THEN conns ELSE Close(conns, serial_conn)

StopThreads ==
    /\ run_threads' = FALSE
    /\ conns' = StopThreadsConns

(***************************************************************************)
(* NXController.send("nx587_setup") as the controller itself calls it      *)
(***************************************************************************)
\* The command put on self._command_q.
SendSetup(qs) == [qs EXCEPT ![cur_q] = Append(@, setup_options)]

(***************************************************************************)
(* NXController._connection_manager                                        *)
(* The threads have no state of their own but the place they are at:       *)
(* "loop" (the while test, on entry and after each sleep), "probe" (about  *)
(* to test the port), "open" (found it available, about to open it),       *)
(* "build" (opened it, about to fill the deviceBank), "done" (left the     *)
(* loop and returned), "dead" (ended by an exception).                     *)
(***************************************************************************)
\* One manager thread goes from one place to another.
MoveManager(from, to) ==
    managers' = [managers EXCEPT ![from] = @ - 1, ![to] = @ + 1]

\* One manager thread leaves the probe; managers.probed counts the probes
\* made, as far as limits.probes.
ProbedManager(to) ==
    managers' = [managers EXCEPT !.probe = @ - 1, ![to] = @ + 1,
                                 !.probed = Min(@ + 1, limits.probes)]

\* The test of the while loop.
LoopTest == connection_requested

\* while self._connection_requested (on entry, and again after each sleep).
ManagerLoop ==
    /\ managers.loop > 0
    /\ MoveManager("loop", IF LoopTest THEN "probe" ELSE "done")
    /\ UNCHANGED << flagVars, max_devices, callerVars, serial_conn, conns, queueVars,
                    storeVars, workers, envVars, lines_read, callbackVars, api >>

\* The setup command is sent again when the port is not available and a
\* session has been opened before.
ResendSetup == ~first_time

\* ready_to_connect = self._serial_is_available(), and the branch taken when
\* it is False, up to the sleep.
ManagerProbe ==
    /\ managers.probe > 0
    /\ IF SerialIsAvailable
       THEN /\ ProbedManager("open")
            /\ UNCHANGED command_qs
       ELSE /\ ProbedManager("loop")
            /\ IF ResendSetup
               THEN /\ Len(command_qs[cur_q]) < MaxCommandQueue
                    /\ command_qs' = SendSetup(command_qs)
               ELSE UNCHANGED command_qs
    /\ UNCHANGED << flagVars, max_devices, callerVars, serial_conn, conns, cur_q,
                    raw_event_qs, storeVars, workers, envVars, lines_read,
                    callbackVars, api >>

\* _connect_and_process up to self.deviceBank = {}. The try:
\* serial.Serial(port, exclusive=True) fails when the port was taken or
\* removed since the probe, and the except branch calls _stop_threads().
\* Otherwise the else branch begins: the flag of the first time, the new
\* queues, the setup command, and the deviceBank attribute set to an empty
\* dict, which the loop that follows fills.
ManagerOpen ==
    /\ managers.open > 0
    /\ IF SerialIsAvailable
       THEN /\ Len(conns) < limits.sessions
            /\ conns' = Append(conns, [status |-> "open", closes |-> 0,
                                       written |-> << >>])
            /\ serial_conn' = Len(conns) + 1
            /\ first_time' = FALSE
            /\ cur_q' = Len(command_qs) + 1
            /\ deviceBank' = NoBank
            /\ command_qs' =
                   FreeCommandQs(Append(command_qs, << setup_options >>),
                                 workers, cur_q')
            /\ raw_event_qs' =
                   FreeRawEventQs(Append(raw_event_qs, << >>), workers, cur_q')
            /\ MoveManager("open", "build")
            /\ UNCHANGED run_threads
       ELSE /\ StopThreads
            /\ MoveManager("open", IF serial_conn = 0 THEN "dead" ELSE "loop")
            /\ UNCHANGED << first_time, serial_conn, queueVars, deviceBank >>
    /\ UNCHANGED << connection_requested, max_devices, callerVars, clock,
                    notified, last, workers, envVars, lines_read,
                    callbackVars, api >>

\* The direct queries the loop over the device types puts on the command
\* queue.
InitialCommands(table) == AllQueries(1, table)

\* The rest of _connect_and_process, which runs to its end without blocking:
\* the deviceBank filled and the direct queries queued, the three threads
\* (which get the serial_conn and the queues of this call), the flag and
\* on_connect. The manager then sleeps.
ManagerBuild ==
    /\ managers.build > 0
    /\ deviceBank' = NewBank(max_devices)
    /\ workers' = Append(workers,
                         [conn |-> serial_conn, q |-> cur_q,
                          writer |-> "run", reader |-> "run",
                          producer |-> "run"])
    /\ command_qs' =
           [command_qs EXCEPT ![cur_q] = @ \o InitialCommands(max_devices)]
    /\ run_threads' = TRUE
    /\ on_connect_calls' = on_connect_calls + 1
    /\ MoveManager("build", "loop")
    /\ UNCHANGED << connection_requested, first_time, max_devices, callerVars,
                    serial_conn, conns, cur_q, raw_event_qs, clock, notified,
                    last, envVars, lines_read, on_disconnect_calls, api >>

(***************************************************************************)
(* The worker threads. A step of a worker is one round of its loop: the    *)
(* test of self._run_threads and the blocking call behind it. A round in   *)
(* which the blocking get times out (queue.Empty) changes nothing.         *)
(***************************************************************************)
SetWorker(w, role, pc) == workers' = [workers EXCEPT ![w][role] = pc]

\* The flag every worker loop tests.
KeepRunning == run_threads

(***************************************************************************)
(* NXController._serial_writer, the thread of start w                      *)
(***************************************************************************)
WriterExit(w) ==
    /\ workers[w].writer = "run"
    /\ ~KeepRunning
    /\ SetWorker(w, "writer", "done")
    /\ command_qs' = FreeCommandQs(command_qs, workers', cur_q)
    /\ UNCHANGED << flagVars, max_devices, callerVars, serial_conn, conns, cur_q,
                    raw_event_qs, storeVars, managers, envVars, lines_read,
                    callbackVars, api >>

\* serial_conn.write(b) on an open port: the command is on the wire. The
\* record of what went out on a port keeps its first limits.written commands.
Written(cs, c, command) ==
    [cs EXCEPT ![c].written =
        IF Len(@) < limits.written THEN Append(@, command) ELSE @]

\* A get that hands out the command put last.
NewestCommand(queue) == queue[Len(queue)]

\* command_q.get(): the command put first.
TakenCommand(queue) == Head(queue)

\* command_q.get(timeout=2) and serial_conn.write: PortNotOpenError (port
\* closed) calls _stop_threads; any other SerialException (adaptor gone) is
\* not caught and ends the thread.
WriterWrite(w) ==
    LET q == workers[w].q
        c == workers[w].conn
    IN  /\ workers[w].writer = "run"
        /\ KeepRunning
        /\ command_qs[q] # << >>
        /\ CASE conns[c].status = "closed" ->
                  /\ StopThreads
                  /\ UNCHANGED workers
             [] conns[c].status = "stale" ->
                  /\ SetWorker(w, "writer", "dead")
                  /\ UNCHANGED << run_threads, conns >>
             [] conns[c].status = "open" ->
                  /\ conns' = Written(conns, c, TakenCommand(command_qs[q]))
                  /\ UNCHANGED << run_threads, workers >>
        /\ command_qs' =
               FreeCommandQs([command_qs EXCEPT ![q] = Tail(@)], workers', cur_q)
        /\ UNCHANGED << connection_requested, first_time, max_devices, callerVars,
                        serial_conn, cur_q, raw_event_qs, storeVars, managers,
                        envVars, lines_read, callbackVars, api >>

(***************************************************************************)
(* NXController._serial_reader, the thread of start w                      *)
(***************************************************************************)
ReaderExit(w) ==
    /\ workers[w].reader = "run"
    /\ ~KeepRunning
    /\ SetWorker(w, "reader", "done")
    /\ raw_event_qs' = FreeRawEventQs(raw_event_qs, workers', cur_q)
    /\ UNCHANGED << flagVars, max_devices, callerVars, serial_conn, conns, cur_q,
                    command_qs, storeVars, managers, envVars, lines_read,
                    callbackVars, api >>

\* serial_reader.readline() raises on a port that is closed or whose adaptor
\* is gone: the except branch calls _stop_threads.
ReaderFault(w) ==
    /\ workers[w].reader = "run"
    /\ KeepRunning
    /\ conns[workers[w].conn].status # "open"
    /\ StopThreads
    /\ UNCHANGED << connection_requested, first_time, max_devices, callerVars,
                    serial_conn, queueVars, storeVars, managers, workers,
                    envVars, lines_read, callbackVars, api >>

\* readline() returns a line; a non-empty one is put on raw_event_q.
ReaderLine(w) ==
    /\ workers[w].reader = "run"
    /\ KeepRunning
    /\ conns[workers[w].conn].status = "open"
    /\ lines_read < limits.lines
    /\ \E raw_line \in WireLines :
          raw_event_qs' =
              IF raw_line # << >>
              THEN [raw_event_qs EXCEPT ![workers[w].q] = Append(@, raw_line)]
              ELSE raw_event_qs
    /\ lines_read' = lines_read + 1
    /\ UNCHANGED << flagVars, max_devices, callerVars, serial_conn, conns, cur_q,
                    command_qs, storeVars, managers, workers, envVars,
                    callbackVars, api >>

(***************************************************************************)
(* NXController._event_producer, the thread of start w                     *)
(***************************************************************************)
\* The else branch of the loop body on one raw event: _decode, and _update
\* when an event came back. result: "dropped" (None), "applied", "error"
\* (an exception leaves the loop body) or "hang" (_decode never returns).
HandleRaw(raw_event, bank, clk, notifs, table) ==
    LET event == Decode(raw_event)
        st0 == [bank |-> bank, clock |-> clk, notifs |-> notifs, error |-> ""]
    IN  CASE event.kind = "none" -> [st |-> st0, result |-> "dropped"]
          [] event.kind = "hang" -> [st |-> st0, result |-> "hang"]
          [] event.kind = "error" -> [st |-> st0, result |-> "error"]
          [] event.kind = "event" ->
               LET st1 == Update(st0, event, table)
               IN  [st |-> st1,
                    result |-> IF st1.error # "" THEN "error" ELSE "applied"]

\* The effect of handling raw_event on the store.
Handle(raw_event) ==
    LET h == HandleRaw(raw_event, deviceBank, clock, notified, max_devices)
    IN  /\ deviceBank' = h.st.bank
        /\ clock' = h.st.clock
        /\ notified' = h.st.notifs
        /\ last' = [lines |-> Append(last.lines, raw_event), result |-> h.result]

\* Where the producer thread is after a line was handled with this result.
ProducerAfter(result) ==
    CASE result = "error" -> "dead"
      [] result = "hang" -> "hung"
      [] OTHER -> "run"

ProducerExit(w) ==
    /\ workers[w].producer = "run"
    /\ ~KeepRunning
    /\ SetWorker(w, "producer", "done")
    /\ raw_event_qs' = FreeRawEventQs(raw_event_qs, workers', cur_q)
    /\ UNCHANGED << flagVars, max_devices, callerVars, serial_conn, conns, cur_q,
                    command_qs, storeVars, managers, envVars, lines_read,
                    callbackVars, api >>

\* raw_event_q.get(timeout=2) returns a raw event, which is decoded and
\* applied to self.deviceBank.
ProducerHandle(w) ==
    LET q == workers[w].q IN
    /\ workers[w].producer = "run"
    /\ KeepRunning
    /\ raw_event_qs[q] # << >>
    /\ Handle(Head(raw_event_qs[q]))
    /\ SetWorker(w, "producer", ProducerAfter(last'.result))
    /\ raw_event_qs' =
           FreeRawEventQs([raw_event_qs EXCEPT ![q] = Tail(@)], workers', cur_q)
    /\ UNCHANGED << flagVars, max_devices, callerVars, serial_conn, conns, cur_q,
                    command_qs, managers, envVars, lines_read, callbackVars,
                    api >>

(***************************************************************************)
(* Spec: the connection lifecycle                                          *)
(***************************************************************************)
Next ==
    \/ connect
    \/ disconnect
    \/ Unplug
    \/ Replug
    \/ ManagerLoop
    \/ ManagerProbe
    \/ ManagerOpen
    \/ ManagerBuild
    \/ \E w \in 1..Len(workers) : WriterExit(w)
    \/ \E w \in 1..Len(workers) : WriterWrite(w)
    \/ \E w \in 1..Len(workers) : ReaderExit(w)
    \/ \E w \in 1..Len(workers) : ReaderFault(w)
    \/ \E w \in 1..Len(workers) : ReaderLine(w)
    \/ \E w \in 1..Len(workers) : ProducerExit(w)
    \/ \E w \in 1..Len(workers) : ProducerHandle(w)

Spec == Init /\ [][Next]_vars

\* The same program with one manager thread and room for a second session.
InitReconnect ==
    /\ InitLifecycle
    /\ limits = [managers |-> ReconnectManagers, sessions |-> ReconnectSessions,
                 unplugs |-> ReconnectUnplugs, lines |-> ReconnectLinesRead, calls |-> 0, written |-> 0,
                 probes |-> 0]

SpecReconnect == InitReconnect /\ [][Next]_vars

\* A manager thread that can take its next step is scheduled in the end: its
\* sleep is over after CHECK_EVERY_SEC seconds and none of its calls blocks.
ManagerFairness ==
    /\ WF_vars(ManagerLoop)
    /\ WF_vars(ManagerProbe)
    /\ WF_vars(ManagerOpen)
    /\ WF_vars(ManagerBuild)

SpecReconnectFair == SpecReconnect /\ ManagerFairness

\* A worker thread whose next step is possible is scheduled in the end: its
\* get returns after a timeout of 2 seconds at the latest, and a read on a
\* port that is closed or gone raises. (A read on a silent open port may
\* block for ever.)
WriterStep(w) ==
    /\ w <= Len(workers)
    /\ IF KeepRunning THEN WriterWrite(w) ELSE WriterExit(w)

ReaderStep(w) ==
    /\ w <= Len(workers)
    /\ IF KeepRunning THEN ReaderFault(w) ELSE ReaderExit(w)

ProducerStep(w) ==
    /\ w <= Len(workers)
    /\ IF KeepRunning THEN ProducerHandle(w) ELSE ProducerExit(w)

\* The event producer has a step to take: it is alive and the flag is down
\* or a raw event is queued for it.
ProducerCanStep(w) ==
    /\ w <= Len(workers)
    /\ workers[w].producer = "run"
    /\ (~KeepRunning \/ raw_event_qs[workers[w].q] # << >>)

\* Weak fairness of the step of the event producer, with the condition
\* under which the step is possible written out.
ProducerFairness(w) ==
    \/ []<>(~ProducerCanStep(w))
    \/ []<><<ProducerStep(w)>>_vars

WorkerFairness ==
    \A w \in 1..ReconnectSessions :
        /\ WF_vars(WriterStep(w))
        /\ WF_vars(ReaderStep(w))
        /\ ProducerFairness(w)

SpecReconnectAllFair == SpecReconnectFair /\ WorkerFairness

\* The same program with one manager thread whose probes are counted.
InitProbe ==
    /\ InitLifecycle
    /\ limits = [managers |-> ProbeManagers, sessions |-> ProbeSessions,
                 unplugs |-> ProbeUnplugs, lines |-> ProbeLinesRead,
                 calls |-> 0, written |-> 0, probes |-> MaxProbesCounted]

SpecProbe == InitProbe /\ [][Next]_vars

(***************************************************************************)
(* NXController.send                                                       *)
(***************************************************************************)
\* What send() is called with.
Name_1234 == << "1", "2", "3", "4" >>

Name_123456 == << "1", "2", "3", "4", "5", "6" >>

Name_12345 == << "1", "2", "3", "4", "5" >>

\* "stay" (a key of the USA keymap only)
Name_stay == << "s", "t", "a", "y" >>

\* "partial" (a key of the AUNZ keymap only)
Name_partial == << "p", "a", "r", "t", "i", "a", "l" >>

\* "chime" (a key of both keymaps)
Name_chime == << "c", "h", "i", "m", "e" >>

\* "unknownCmd"
Name_unknownCmd == << "u", "n", "k", "n", "o", "w", "n", "C", "m", "d" >>

\* "nx587_setup"
Name_nx587_setup == << "n", "x", "5", "8", "7", "_", "s", "e", "t", "u", "p" >>

SendNames ==
    { Name_1234, Name_123456, Name_12345, Name_stay, Name_partial, Name_chime,
      Name_unknownCmd, Name_nx587_setup }

\* An unknown name passed on as it is.
UnknownPassedOn(in_command) == [kind |-> "command", command |-> Join(in_command)]

\* None of the three branches bound the local name command: the test
\* command != "" raises UnboundLocalError.
UnknownCommand(in_command) == [kind |-> "error", exc |-> "UnboundLocalError"]

\* in_command.isnumeric() and the length is not 4: len(in_command == 6) is
\* len(False) and raises TypeError.
LengthTest6(in_command) == [kind |-> "error", exc |-> "TypeError"]

\* The command send() puts on the queue for in_command, or the exception
\* raised before it gets there.
SendCommand(km, in_command) ==
    LET supported_commands == supported_keymaps[km]
        name == Join(in_command)
    IN  IF IsNumeric(in_command)
        THEN IF Len(in_command) = 4
             THEN [kind |-> "command", command |-> name]
             ELSE LengthTest6(in_command)
        ELSE IF name \in DOMAIN supported_commands
        THEN [kind |-> "command", command |-> supported_commands[name]]
        ELSE IF name = "nx587_setup"
        THEN [kind |-> "command", command |-> setup_options]
        ELSE UnknownCommand(in_command)

\* The caller's send(in_command). self._command_q.put_nowait raises
\* AttributeError when no queue was ever made.
send ==
    /\ reply.n < limits.calls
    /\ \E in_command \in SendNames :
          LET r == SendCommand(keymap, in_command)
              result == IF r.kind = "error" THEN r.exc
                        ELSE IF cur_q = 0 THEN "AttributeError" ELSE "queued"
          IN  /\ reply' = [call |-> "send", arg |-> in_command,
                           result |-> result, status |-> << >>,
                           n |-> reply.n + 1]
              /\ command_qs' =
                     IF result = "queued"
                     THEN [command_qs EXCEPT ![cur_q] = Append(@, r.command)]
                     ELSE command_qs
    /\ UNCHANGED << flagVars, max_devices, keymap, serial_conn, conns, cur_q,
                    raw_event_qs, storeVars, managers, workers, envVars,
                    lines_read, callbackVars, api >>

(***************************************************************************)
(* NXController.get_status                                                 *)
(***************************************************************************)
\* What get_status() returns ("status", with the device of the deviceBank it
\* read) or raises.
GetStatus(running, bank, table, event_type, id, topic) ==
    LET raised(exc) == [result |-> exc, status |-> << >>] IN
    IF ~running THEN raised("ConnectionError")
    ELSE IF event_type \notin DOMAIN NX_EVENT_TYPES THEN raised("GetStatusError")
    ELSE IF ~IdInRange(id, table[event_type]) THEN raised("GetStatusError")
    ELSE IF event_type \notin DOMAIN bank THEN raised("KeyError")
    ELSE LET k == PyIndex(Len(bank[event_type]), id - 1) IN
         IF k = 0 THEN raised("IndexError")
         ELSE IF topic \notin DOMAIN bank[event_type][k] THEN raised("KeyError")
         ELSE [result |-> "status",
               status |-> << k, bank[event_type][k][topic].v,
                             bank[event_type][k][topic].t >>]

\* What get_status() is called with.
StatusTypes == {"ZN", "XX"}

StatusIds == (0 - 1)..(max_devices["ZN"] + 1)

StatusTopics == {"fault"}

\* The caller's get_status(event_type, id, topic).
get_status ==
    /\ reply.n < limits.calls
    /\ \E event_type \in StatusTypes, id \in StatusIds, topic \in StatusTopics :
          LET r == GetStatus(run_threads, deviceBank, max_devices,
                             event_type, id, topic)
          IN  reply' = [call |-> "get_status",
                        arg |-> [type |-> event_type, id |-> id, topic |-> topic],
                        result |-> r.result, status |-> r.status,
                        n |-> reply.n + 1]
    /\ UNCHANGED << flagVars, max_devices, keymap, serial_conn, conns,
                    queueVars, storeVars, managers, workers, envVars,
                    lines_read, callbackVars, api >>

(***************************************************************************)
(* SpecCommands: the lifecycle with the caller's send() and get_status()   *)
(***************************************************************************)
InitCommands ==
    /\ InitController
    /\ keymap \in DOMAIN supported_keymaps
    /\ max_devices = [ZN |-> ZNCount, PA |-> PACount]
    /\ deviceBank = NoBank
    /\ limits = [managers |-> CommandManagers, sessions |-> CommandSessions,
                 unplugs |-> CommandUnplugs, lines |-> CommandLinesRead,
                 calls |-> MaxCalls, written |-> MaxWritten,
                 probes |-> 0]

NextCommands ==
    \/ Next
    \/ send
    \/ get_status

SpecCommands == InitCommands /\ [][NextCommands]_vars

(***************************************************************************)
(* SpecStore: lines applied to a freshly built deviceBank                  *)
(***************************************************************************)
\* The deviceBank _connect_and_process builds for the default table.
InitStore ==
    /\ InitController
    /\ keymap = "USA"
    /\ max_devices = NX_DEFAULT_NODES
    /\ deviceBank = NewBank(NX_DEFAULT_NODES)
    /\ limits = [managers |-> 0, sessions |-> 0, unplugs |-> 0,
                 lines |-> MaxApplied, calls |-> 0, written |-> 0,
                 probes |-> 0]

\* The event producer handles one more line, as long as it is alive.
ApplyLine ==
    /\ lines_read < limits.lines
    /\ last.result \in {"none", "dropped", "applied"}
    /\ \E raw_event \in StoreLines : Handle(raw_event)
    /\ lines_read' = lines_read + 1
    /\ UNCHANGED << flagVars, max_devices, callerVars, serial_conn, conns, queueVars,
                    managers, workers, envVars, callbackVars, api >>

NextStore == ApplyLine

SpecStore == InitStore /\ [][NextStore]_vars

(***************************************************************************)
(* Properties                                                              *)
(***************************************************************************)
\* A step in which the caller's connect() / disconnect() ran. A call that
\* raises the error the previous call raised leaves every variable as it
\* was and is no step at all.
ConnectCalled == api' # api /\ api'.call = "connect"
DisconnectCalled == api' # api /\ api'.call = "disconnect"

\* C1: connect() while a session is running (_run_threads true) raises the
\* "Active connection already exists" error, starts no manager thread and no
\* writer/reader/producer thread, and leaves the connection-requested flag,
\* the run flag, the queues and the deviceBank as they were.
C1_ConnectWhileRunningRaises ==
    [][(ConnectCalled /\ run_threads) =>
          /\ api'.result = "ConnectionError"
          /\ UNCHANGED << managers, workers, connection_requested,
                          run_threads, cur_q, command_qs, raw_event_qs,
                          deviceBank >>]_vars

C1_Witness ==
    /\ run_threads
    /\ api.call = "connect"
    /\ api.result = "ConnectionError"

\* C2: at most one manager thread is alive at any time (a connect() issued
\* while a connection is already requested starts no second one).
C2_AtMostOneManager == ManagersAlive <= 1

\* C3: once disconnect() has returned without raising, and until connect()
\* is called again, no session is running and the port is not held.
C3_NoSessionAfterDisconnect == api.disconnected => (~run_threads /\ ~PortHeld)

\* C4: close() is invoked at most once on the serial.Serial object of a
\* session, however the session is torn down.
C4_ClosedOnce == \A c \in 1..Len(conns) : conns[c].closes <= 1

\* C5: at most one writer, one reader and one producer thread are alive.
Alive(pc) == pc \in {"run", "hung"}

AliveCount(role) == Cardinality({w \in 1..Len(workers) : Alive(workers[w][role])})

C5_OneWorkerOfEachKind ==
    /\ AliveCount("writer") <= 1
    /\ AliveCount("reader") <= 1
    /\ AliveCount("producer") <= 1

\* C6: a read fault during a running session, with the connection still
\* requested, ends the session and leaves a manager thread in its loop with
\* the connection still requested; a manager that then found the port
\* available establishes a new session in the end, unless the adaptor goes
\* away first; and every step that establishes a session leaves a deviceBank
\* with every id of every device type and every topic not updated.
AllUnknown(bank) ==
    /\ DOMAIN bank = DOMAIN max_devices
    /\ \A device \in DOMAIN bank :
          /\ DOMAIN bank[device] = 1..max_devices[device]
          /\ \A i \in DOMAIN bank[device] :
                \A t \in 1..Len(NX_EVENT_TYPES[device]) :
                    /\ bank[device][i][NX_EVENT_TYPES[device][t]].v = NotUpdated
                    /\ bank[device][i][NX_EVENT_TYPES[device][t]].t = NotUpdated

ReadFault ==
    /\ run_threads
    /\ ~run_threads'
    /\ api' = api
    /\ managers' = managers
    /\ command_qs' = command_qs

SessionEstablished == on_connect_calls' = on_connect_calls + 1

FoundAvailableAfterFault ==
    /\ managers.open > 0
    /\ SerialIsAvailable
    /\ connection_requested
    /\ ~run_threads
    /\ serial_conn # 0
    /\ Len(conns) < limits.sessions

WorkerEndsSession ==
    /\ run_threads
    /\ ~run_threads'
    /\ api' = api
    /\ managers' = managers

C7_FaultCallsOnDisconnect ==
    [][WorkerEndsSession => on_disconnect_calls' = on_disconnect_calls + 1]_vars

\* C8: disconnect() while no session is running raises the "Not connected"
\* error and leaves the connection-requested flag, the run flag and the
\* serial port objects as they were; no callback is called.
C8_DisconnectWhileIdleRaises ==
    [][(DisconnectCalled /\ ~run_threads) =>
          /\ api'.result = "ConnectionError"
          /\ UNCHANGED << connection_requested, run_threads, serial_conn,
                          conns, on_connect_calls, on_disconnect_calls,
                          notified >>]_vars

C8_Witness ==
    /\ ~run_threads
    /\ api.call = "disconnect"
    /\ api.result = "ConnectionError"
    /\ Len(conns) > 0

\* The line handled in this step, decoded, and what was handed to on_event
\* in this step.
LineHandled == last'.lines # last.lines

HandledEvent == Decode(last'.lines[Len(last'.lines)])

NewlyNotified == SubSeq(notified', Len(notified) + 1, Len(notified'))

Concrete(value) == value \in {PyTrue, PyFalse}

\* C9: when an event with an id of 1..max is applied, on_event gets an
\* individual event for a topic if and only if the event's value for the topic
\* differs from the stored value and the stored value is True or False, once
\* per such topic and with the event's value; the event's values are stored;
\* and an event applied to a deviceBank with nothing updated yet calls
\* on_event for nothing.
C9_NotifiedIffChangedAndConcrete ==
    [][LineHandled =>
         LET ev == HandledEvent IN
         (ev.kind = "event" /\ ev.id \in 1..max_devices[ev.type]) =>
            LET stored(i) == deviceBank[ev.type][ev.id][ev.topics[i].topic].v
                due == {i \in 1..Len(ev.topics) :
                           stored(i) # ev.topics[i].payload /\ Concrete(stored(i))}
            IN  /\ Len(NewlyNotified) = Cardinality(due)
                /\ \A i \in 1..Len(ev.topics) :
                      (i \in due) <=>
                          \E n \in 1..Len(NewlyNotified) :
                              /\ NewlyNotified[n].type = ev.type
                              /\ NewlyNotified[n].id = ev.id
                              /\ NewlyNotified[n].topic = ev.topics[i].topic
                              /\ NewlyNotified[n].payload = ev.topics[i].payload
                /\ \A i \in 1..Len(ev.topics) :
                      deviceBank'[ev.type][ev.id][ev.topics[i].topic].v =
                          ev.topics[i].payload
                /\ AllUnknown(deviceBank) => NewlyNotified = << >>]_vars

\* Both cases have happened: an event applied to the fresh deviceBank without
\* a call of on_event, and a later one that called it.
C9_Witness ==
    /\ Len(last.lines) >= 2
    /\ last.result = "applied"
    /\ Len(notified) >= 1
    /\ notified[1].id \in 1..max_devices[notified[1].type]

ZoneFault == deviceBank["ZN"][1]["fault"].v

FaultNotified(n, value) ==
    /\ notified[n].type = "ZN"
    /\ notified[n].id = 1
    /\ notified[n].topic = "fault"
    /\ notified[n].payload = value

\* C10 as the specification states it: on the fresh deviceBank (48 zones),
\* "ZN001FttBaillb" establishes fault = False for zone 1 without a call of
\* on_event, and "ZN001TttBaillb" then changes fault to True and on_event is
\* called exactly once, for zone 1, topic fault, value True.
C10_Original ==
    /\ last.lines = << Line_ZN001_F >> =>
          (ZoneFault = PyFalse /\ notified = << >>)
    /\ last.lines = << Line_ZN001_F, Line_ZN001_T >> =>
          (ZoneFault = PyTrue /\ Len(notified) = 1 /\ FaultNotified(1, PyTrue))

\* C10 as the code has it: "F" is upper case, so "ZN001FttBaillb" establishes
\* fault = True for zone 1 without a call of on_event, and "ZN001TttBaillb"
\* then leaves fault True and on_event is not called; it is after
\* "ZN001fttBaillb" (fault = False, no call) that "ZN001TttBaillb" changes
\* fault to True with exactly one call, for zone 1, topic fault, value True.
C10_EndToEnd ==
    /\ last.lines = << Line_ZN001_F >> =>
          (ZoneFault = PyTrue /\ notified = << >>)
    /\ last.lines = << Line_ZN001_F, Line_ZN001_T >> =>
          (ZoneFault = PyTrue /\ notified = << >>)
    /\ last.lines = << Line_ZN001_lower >> =>
          (ZoneFault = PyFalse /\ notified = << >>)
    /\ last.lines = << Line_ZN001_lower, Line_ZN001_T >> =>
          (ZoneFault = PyTrue /\ Len(notified) = 1 /\ FaultNotified(1, PyTrue))

C10_Witness ==
    /\ last.lines = << Line_ZN001_F, Line_ZN001_T >>
    /\ last.result = "applied"
    /\ ZoneFault = PyTrue

\* The line handled before the one handled in this step.
PreviousLine == last.lines[Len(last.lines)]

ThisLine == last'.lines[Len(last'.lines)]

StoreUnchanged == UNCHANGED << deviceBank, notified, clock >>

\* C11: an event with the id 0 is discarded: no stored value, no time of any
\* device changes and on_event is not called.
C11_IdZeroDiscarded ==
    [][LineHandled =>
         LET ev == HandledEvent IN
         (ev.kind = "event" /\ ev.id = 0) => StoreUnchanged]_vars

\* C12: an event with an id above the maximum of its device type is dropped:
\* _update returns normally, no stored value and no time of any device
\* changes and on_event is not called.
C12_IdAboveMaxDropped ==
    [][LineHandled =>
         LET ev == HandledEvent IN
         (ev.kind = "event" /\ ev.id > max_devices[ev.type]) =>
             (StoreUnchanged /\ last'.result = "applied")]_vars

\* An event above the maximum was handled after the deviceBank had taken
\* values.
C12_Witness ==
    /\ Len(last.lines) >= 2
    /\ last.lines[Len(last.lines)] \in {Line_ZN049, Line_ZN00123}
    /\ last.result = "applied"
    /\ ~AllUnknown(deviceBank)

\* Lines with an unknown device type, with no digits after the type, with
\* more characters than the type has topics.
MalformedLines == {Line_unknown, Line_no_id, Line_long}

\* C13: an unrecognized or malformed line is dropped without error: the
\* event producer goes on with its loop (the lines after it are handled) and
\* the deviceBank is unchanged.
C13_MalformedDropped ==
    [][(LineHandled /\ ThisLine \in MalformedLines) =>
          (last'.result = "dropped" /\ StoreUnchanged)]_vars

\* A step in which the caller's send() / get_status() ran.
SendCalled == reply'.n = reply.n + 1 /\ reply'.call = "send"

StatusCalled == reply'.n = reply.n + 1 /\ reply'.call = "get_status"

\* The string of a user code.
UserCodes == {Name_1234, Name_123456}

UserCodeString(name) == IF name = Name_1234 THEN "1234" ELSE "123456"

\* C14: send() of a numeric string of exactly 4 or exactly 6 digits, during a
\* session, puts that very string at the end of the command queue, whatever
\* the keymap.
C14_UserCodeVerbatim ==
    [][(SendCalled /\ run_threads /\ reply'.arg \in UserCodes) =>
          command_qs'[cur_q] =
              Append(command_qs[cur_q], UserCodeString(reply'.arg))]_vars

\* The names of SendNames that are no user code, no key of the keymap and not
\* the setup token.
InvalidNames(km) ==
    IF km = "USA" THEN {Name_12345, Name_partial, Name_unknownCmd}
    ELSE {Name_12345, Name_stay, Name_unknownCmd}

\* C15: send() of a name that is no user code of 4 or 6 digits, no key of
\* the keymap in use and not the setup token raises and leaves the command
\* queues as they were.
C15_InvalidNameFails ==
    [][(SendCalled /\ reply'.arg \in InvalidNames(keymap)) =>
          /\ reply'.result \in {"UnboundLocalError", "TypeError"}
          /\ UNCHANGED command_qs]_vars

\* An unknown name was sent during a session, with commands on the queue.
C15_Witness ==
    /\ reply.call = "send"
    /\ reply.arg = Name_unknownCmd
    /\ reply.result = "UnboundLocalError"
    /\ run_threads
    /\ command_qs[cur_q] # << >>

\* C16: send() while no session is running and none is being set up (before
\* the first connect(), after disconnect(), after a fault) raises and puts
\* nothing on a command queue.
C16_SendNeedsSession ==
    [][(SendCalled /\ ~run_threads /\ managers.build = 0) =>
          (reply'.result # "queued" /\ UNCHANGED command_qs)]_vars

\* C17: get_status() during a session raises GetStatusError for an unknown
\* device type and for an id outside 1..max of the type (0 and negative ids
\* too), and changes nothing.
InvalidQuery(arg) ==
    \/ arg.type \notin DOMAIN NX_EVENT_TYPES
    \/ arg.id \notin 1..max_devices[arg.type]

C17_InvalidQueryRaises ==
    [][(StatusCalled /\ run_threads /\ InvalidQuery(reply'.arg)) =>
          /\ reply'.result = "GetStatusError"
          /\ UNCHANGED << flagVars, serial_conn, conns, queueVars, storeVars,
                          managers, workers >>]_vars

\* C18: what goes out on the port of a session is, command by command, the
\* head of the session's command queue, taken off it whole; and a command
\* queue changes only by a command put at its end, by its head taken off,
\* or by being dropped with its threads.
IsPrefix(a, b) == Len(a) <= Len(b) /\ SubSeq(b, 1, Len(a)) = a

HeadTaken(before, after) == before # << >> /\ after = Tail(before)

C18_WrittenInQueueOrder ==
    [][\A w \in 1..Len(workers) :
          LET q == workers[w].q
              c == workers[w].conn
          IN  /\ conns'[c].written # conns[c].written =>
                    /\ command_qs[q] # << >>
                    /\ conns'[c].written =
                           Append(conns[c].written, Head(command_qs[q]))
                    /\ (HeadTaken(command_qs[q], command_qs'[q])
                           \/ command_qs'[q] = << >>)
              /\ command_qs'[q] # command_qs[q] =>
                    \/ IsPrefix(command_qs[q], command_qs'[q])
                    \/ HeadTaken(command_qs[q], command_qs'[q])
                    \/ command_qs'[q] = << >>]_vars

\* The setup command, the two direct queries and a user code sent by the
\* caller went out in this order.
C18_Witness ==
    \E c \in 1..Len(conns) :
        conns[c].written = << "taliPZn", "Q001", "Q193", "1234" >>

\* C20: whenever an event producer handles a line, self.deviceBank holds
\* every id of 1..max of every device type.
FullyPopulated(bank) ==
    /\ DOMAIN bank = DOMAIN max_devices
    /\ \A device \in DOMAIN bank : DOMAIN bank[device] = 1..max_devices[device]

C20_AppliedToFullBank == [][LineHandled => FullyPopulated(deviceBank)]_vars

\* C19: an event applied a second time in a row changes no stored value and
\* no time and calls on_event for nothing; when the first application
\* changed one topic that was set before, on_event was called once by it.
C19_SecondApplicationIdle ==
    /\ [][(LineHandled /\ Len(last.lines) > 0 /\ last.result = "applied"
            /\ ThisLine = PreviousLine /\ HandledEvent.kind = "event") =>
              (StoreUnchanged /\ last'.result = "applied")]_vars
    /\ [](last.lines = << Line_ZN001_lower, Line_ZN001_T >> =>
              (Len(notified) = 1 /\ FaultNotified(1, PyTrue)))
    /\ [](last.lines = << Line_ZN001_lower, Line_ZN001_T, Line_ZN001_T >> =>
              (Len(notified) = 1 /\ FaultNotified(1, PyTrue)))

C19_Witness ==
    /\ last.lines = << Line_ZN001_lower, Line_ZN001_T, Line_ZN001_T >>
    /\ last.result = "applied"
    /\ Len(notified) = 1

\* C21: when a session is established, self._command_q holds the setup
\* command first and then one direct query for every id of 1..max of every
\* device type, and nothing else; and the first command that goes out on a
\* port is the setup command.
QueryCount(queue, query) ==
    Cardinality({i \in 2..Len(queue) : queue[i] = query})

SetupThenQueries(queue, table) ==
    /\ Len(queue) = 1 + table["ZN"] + table["PA"]
    /\ queue[1] = setup_options
    /\ \A device \in DOMAIN table : \A id \in 1..table[device] :
          QueryCount(queue, DirectQuery(device, id, table)[1]) = 1

C21_SetupThenQueries ==
    /\ [][SessionEstablished =>
            SetupThenQueries(command_qs'[cur_q'], max_devices)]_vars
    /\ [](\A c \in 1..Len(conns) :
             conns[c].written # << >> => conns[c].written[1] = setup_options)

\* C22: a probe that finds the port unavailable puts the setup command on
\* self._command_q unless it is the first probe the manager thread makes,
\* and the first probe puts nothing on any queue.
ProbeFoundUnavailable ==
    /\ managers'.probe = managers.probe - 1
    /\ managers'.loop = managers.loop + 1

C22_SetupOnLaterProbes ==
    [][ProbeFoundUnavailable =>
          IF managers.probed = 0
          THEN command_qs' = command_qs
          ELSE /\ cur_q # 0
               /\ command_qs'[cur_q] = Append(command_qs[cur_q], setup_options)]_vars

\* C23: when the writer thread takes a command and the write fails (the
\* port was closed, or the adaptor is gone), self._run_threads is cleared
\* and the port of that writer is closed.
WriteFailed(w) ==
    LET q == workers[w].q
        c == workers[w].conn
    IN  /\ workers[w].writer = "run"
        /\ run_threads
        /\ command_qs[q] # << >>
        /\ command_qs'[q] # command_qs[q]
        /\ command_qs'[q] \in {Tail(command_qs[q]), << >>}
        /\ conns[c].status # "open"

C23_WriteFailureEndsSession ==
    [][\A w \in 1..Len(workers) :
          WriteFailed(w) =>
              /\ ~run_threads'
              /\ conns'[workers[w].conn].status = "closed"]_vars

\* C24: in every step the time stored for a topic changes if and only if
\* the value stored for it changes; and an event with an id of 1..max that
\* is applied stores its value and the time of the step for each of its
\* topics whose stored value differs, and leaves the value and the time of
\* every other topic and of every other device as they were.
Entries(bank) ==
    UNION {{<< device, k, NX_EVENT_TYPES[device][t] >> :
               k \in 1..Len(bank[device]),
               t \in 1..Len(NX_EVENT_TYPES[device])} : device \in DOMAIN bank}

Value(bank, e) == bank[e[1]][e[2]][e[3]].v

Time(bank, e) == bank[e[1]][e[2]][e[3]].t

EventPayload(ev, e) ==
    {ev.topics[i].payload :
        i \in {j \in 1..Len(ev.topics) : ev.topics[j].topic = e[3]}}

TypeOf(line) == Join(SubSeq(line, 1, Min(2, Len(line))))

\* The number of digits of the longest run of digits from position 3.
DigitRun(line) ==
    Cardinality({d \in 1..(Len(line) - 2) :
                    \A i \in 3..(2 + d) : line[i] \in Digits})

PayloadOf(line) == SubSeq(line, 3 + DigitRun(line), Len(line))

WellFormed(line) ==
    /\ TypeOf(line) \in DOMAIN NX_EVENT_TYPES
    /\ DigitRun(line) >= 1
    /\ \A i \in 1..Len(PayloadOf(line)) : PayloadOf(line)[i] \notin Digits
    /\ Len(PayloadOf(line)) <= Len(NX_EVENT_TYPES[TypeOf(line)])

DecodedAsClaimed(line, ev) ==
    /\ ev.kind = "event"
    /\ ev.type = TypeOf(line)
    /\ ev.id = PyInt(SubSeq(line, 3, 2 + DigitRun(line)))
    /\ Len(ev.topics) = Len(PayloadOf(line))
    /\ \A i \in 1..Len(PayloadOf(line)) :
          /\ ev.topics[i].topic = NX_EVENT_TYPES[TypeOf(line)][i]
          /\ (ev.topics[i].payload = PyTrue) <=> (PayloadOf(line)[i] \in UpperChars)
          /\ ev.topics[i].payload \in {PyTrue, PyFalse}

C25_DecodeOfWellFormedLine ==
    /\ [][LineHandled =>
             /\ WellFormed(ThisLine) =>
                   /\ last'.result \in {"applied"}
                   /\ DecodedAsClaimed(ThisLine, HandledEvent)
             /\ TypeOf(ThisLine) \notin DOMAIN NX_EVENT_TYPES =>
                   /\ HandledEvent.kind = "none"
                   /\ last'.result = "dropped"]_vars
    /\ [](last.lines # << >> /\ last.lines[Len(last.lines)] = Line_ZN00123 =>
             Decode(Line_ZN00123).id = 123)
    /\ [](last.lines # << >> /\ last.lines[Len(last.lines)] = Line_PA1 =>
             Decode(Line_PA1).id = 1)

\* C26: for a line whose payload has fewer characters than its event type
\* has topics, the decoded event holds the first Len(payload) topics and no
\* other, and applying it leaves the value and the time of every remaining
\* topic as they were and calls on_event for none of them.
ShortPayload(line) ==
    /\ WellFormed(line)
    /\ Len(PayloadOf(line)) < Len(NX_EVENT_TYPES[TypeOf(line)])

RemainingTopics(line) ==
    {NX_EVENT_TYPES[TypeOf(line)][t] :
        t \in (Len(PayloadOf(line)) + 1)..Len(NX_EVENT_TYPES[TypeOf(line)])}

C26_ShortPayloadLeavesRest ==
    [][(LineHandled /\ ShortPayload(ThisLine)) =>
          /\ HandledEvent.kind = "event"
          /\ Len(HandledEvent.topics) = Len(PayloadOf(ThisLine))
          /\ \A i \in 1..Len(HandledEvent.topics) :
                HandledEvent.topics[i].topic = NX_EVENT_TYPES[TypeOf(ThisLine)][i]
          /\ \A e \in Entries(deviceBank) :
                (e[1] = TypeOf(ThisLine) /\ e[3] \in RemainingTopics(ThisLine)) =>
                    /\ Value(deviceBank', e) = Value(deviceBank, e)
                    /\ Time(deviceBank', e) = Time(deviceBank, e)
          /\ \A n \in 1..Len(NewlyNotified) :
                NewlyNotified[n].topic \notin RemainingTopics(ThisLine)]_vars

\* C27 as stated: the direct queries queued when a session is established
\* are, for zone n, "Q" and n filled with zeros to three digits and, for
\* partition n, "Q" and the maximum zone id plus n filled with zeros to
\* three digits.
Queued(queue, command) == \E i \in 1..Len(queue) : queue[i] = command

C27_Original ==
    [][SessionEstablished =>
          /\ \A n \in 1..max_devices["ZN"] :
                Queued(command_qs'[cur_q'], "Q" \o ZFill3(n))
          /\ \A n \in 1..max_devices["PA"] :
                Queued(command_qs'[cur_q'],
                       "Q" \o ZFill3(max_devices["ZN"] + n))]_vars

\* C27 as amended: the direct query is, for zone n, "Q" and n filled with
\* zeros to three digits and, for partition n, "Q" and 192 + n; for the
\* default table of 48 zones and 2 partitions the 50 queries differ from
\* one another and partition 1 is queried with Q193.
NoDuplicates(queue) ==
    \A i, j \in 1..Len(queue) : queue[i] = queue[j] => i = j

C27_PartitionQueriesFrom193 ==
    [][SessionEstablished =>
          /\ \A n \in 1..max_devices["ZN"] :
                Queued(command_qs'[cur_q'], "Q" \o ZFill3(n))
          /\ \A n \in 1..max_devices["PA"] :
                Queued(command_qs'[cur_q'], "Q" \o PyStr(192 + n))
          /\ Len(AllQueries(1, NX_DEFAULT_NODES)) = 50
          /\ NoDuplicates(AllQueries(1, NX_DEFAULT_NODES))
          /\ AllQueries(1, NX_DEFAULT_NODES)[48] = "Q048"
          /\ AllQueries(1, NX_DEFAULT_NODES)[49] = "Q193"]_vars

\* A session is running whose command queue got the query of partition 1.
C27_Witness ==
    /\ run_threads
    /\ on_connect_calls > 0
    /\ \E c \in 1..Len(conns) : conns[c].status = "open"
    /\ Queued(command_qs[cur_q], "Q193")

\* C28: once self._run_threads is False, the writer, the reader and the
\* event producer of every start made so far end.
WorkersEnded(w) ==
    /\ Ended(workers[w].writer)
    /\ Ended(workers[w].reader)
    /\ Ended(workers[w].producer)

C28_WorkersEndAfterFlagFalse ==
    \A w \in 1..ReconnectSessions :
        (w <= Len(workers) /\ ~run_threads) ~> (w <= Len(workers) /\ WorkersEnded(w))

\* C29: _decode returns for every line the event producer hands to it, the
\* line of a known event type and digits up to its end included: no line
\* leaves the thread inside the id scan.
C29_DecodeReturns ==
    [][LineHandled =>
          /\ HandledEvent.kind # "hang"
          /\ last'.result # "hang"]_vars

\* C30: once the latest session is established and while its port is open,
\* no step of a worker thread clears self._run_threads or closes that port:
\* a fault of a thread left over from an earlier session leaves the latest
\* session alone.
WorkerStopsThreads ==
    /\ run_threads
    /\ ~run_threads'
    /\ on_disconnect_calls' = on_disconnect_calls
    /\ managers' = managers

LatestEstablished ==
    /\ serial_conn # 0
    /\ workers # << >>
    /\ workers[Len(workers)].conn = serial_conn

C30_FaultEndsOwnSessionOnly ==
    [][(WorkerStopsThreads /\ LatestEstablished) =>
          conns[serial_conn].status # "open"]_vars

\* C31: when serial.Serial() fails in _connect_and_process after the probe
\* found the port available, the manager thread stays alive, goes on to its
\* sleep and the next probe, and self._connection_requested stays as it was;
\* also when no port was ever opened before.
OpenFailed ==
    /\ managers'.open = managers.open - 1
    /\ managers'.build = managers.build

C31_OpenFailureKeepsManager ==
    [][OpenFailed =>
          /\ managers'.dead = managers.dead
          /\ managers'.loop = managers.loop + 1
          /\ connection_requested' = connection_requested]_vars

\* C32: for every individual event handed to on_event in a step, the
\* deviceBank holds after the step the event's value and the event's time
\* for its topic, a get_status() for the event's type, id and topic during
\* a session returns that value and that time, and the events of one line
\* come in the order of the topics of model._NX_EVENT_TYPES.
TopicPosition(event_type, topic) ==
    CHOOSE t \in 1..Len(NX_EVENT_TYPES[event_type]) :
        NX_EVENT_TYPES[event_type][t] = topic

C32_NotifiedIsStored ==
    [][\A n \in 1..Len(NewlyNotified) :
          LET ev == NewlyNotified[n]
              status == GetStatus(TRUE, deviceBank', max_devices,
                                  ev.type, ev.id, ev.topic)
          IN  /\ ev.id \in 1..max_devices[ev.type] =>
                    /\ deviceBank'[ev.type][ev.id][ev.topic].v = ev.payload
                    /\ deviceBank'[ev.type][ev.id][ev.topic].t = ev.time
              /\ status.result = "status"
              /\ status.status[2] = ev.payload
              /\ status.status[3] = ev.time
              /\ ev.time > clock
              /\ \A m \in 1..Len(NewlyNotified) :
                    m < n => TopicPosition(NewlyNotified[m].type,
                                           NewlyNotified[m].topic)
                               < TopicPosition(ev.type, ev.topic)]_vars

\* The second of two partition events changed three topics: on_event got
\* ready, armed and chime, in this order.
C32_Witness ==
    /\ last.lines = << Line_PA1_full, Line_PA1 >>
    /\ Len(notified) = 3
    /\ notified[1].topic = "ready"
    /\ notified[2].topic = "armed"
    /\ notified[3].topic = "chime"
    /\ deviceBank["PA"][1]["chime"].t = notified[3].time

====
